---------------------------- MODULE Spec2Model ----------------------------
(***************************************************************************)
(* Model of the composition pipeline of video_maker:                       *)
(* VideoComposer.create_video and the stages it calls                      *)
(* (src/video_composer.py), configured by VIDEO_CONFIG (src/config.py).    *)
(*                                                                         *)
(* Durations are whole seconds.  The durations the model draws are small   *)
(* integers, for which Python's float arithmetic in _add_audio             *)
(* (comparison, a * 2, int(v / a)) is exact, so int(v / a) is v \div a.    *)
(***************************************************************************)
EXTENDS Integers, Sequences, FiniteSets, TLC

-----------------------------------------------------------------------------
(* Bounds of the model *)

MaxImages == 2

MaxAudioDuration == 11

MaxLoops == 3

MaxCues == 1

\* the longest side, in pixels, of the small images and canvases
MaxSide == 5

MaxSubtitleCues == 3

-----------------------------------------------------------------------------
(* Configuration (src/config.py) *)

\* image_duration of VIDEO_CONFIG (4.0) and of HIGH_QUALITY_CONFIG (5.0)
ImageDurations == {4, 5}

\* the documented values of AUDIO_SYNC_MODE
AudioSyncModes == {"loop_audio", "cut_video", "cut_audio"}

\* VIDEO_RESOLUTION
VideoResolution == <<1024, 768>>

\* ZOOM_FACTOR, in hundredths: 1.2
ConfigZoomFactor == 120

\* VIDEO_FPS
VideoFps == 24

\* SUBTITLE_FONTSIZE
SubtitleFontsize == 50

\* The configurations a VideoComposer is constructed with in the runs of the
\* whole pipeline: VIDEO_CONFIG, with the settings of the duration, the zoom
\* and the audio varied; max_audio_loops is the smallest or the largest
\* number of loops.
Configs ==
    [image_duration : ImageDurations,
     zoom_enabled : BOOLEAN,
     audio_sync_mode : AudioSyncModes,
     max_audio_loops : {1, MaxLoops},
     fps : {VideoFps},
     resolution : {VideoResolution},
     zoom_factor : {ConfigZoomFactor},
     random_zoom_direction : {TRUE},
     subtitle_fontsize : {SubtitleFontsize}]


-----------------------------------------------------------------------------
(* Inputs of one run *)

\* One image file of the folder, described by the calls that raise on it.
\* A file ImageClip cannot read cannot be opened by PIL either, and never
\* reaches the zoom effect.
ImageFiles ==
    {f \in [resize_fails : BOOLEAN, clip_fails : BOOLEAN, zoom_fails : BOOLEAN] :
        f.clip_fails => (f.resize_fails /\ ~f.zoom_fails)}

\* the sequences over S of length at most n
SeqUpTo(S, n) == UNION {[1..k -> S] : k \in 0..n}

\* File names are sequences of character codes, which is what sorting and
\* glob matching look at: "a1.jpg", "a10.jpg", "a2.jpg", "a3.PNG".
ImageNames ==
    <<<<97, 49, 46, 106, 112, 103>>,
      <<97, 49, 48, 46, 106, 112, 103>>,
      <<97, 50, 46, 106, 112, 103>>,
      <<97, 51, 46, 80, 78, 71>>>>

\* the (width, height) of the image of each of these files
ImageSizes == <<<<2048, 1024>>, <<1024, 768>>, <<600, 800>>, <<4000, 3000>>>>

\* an image file of the folder: its name, its size, the calls that raise on
\* it, and what random.choice returns when its zoom direction is drawn
NamedFile(name, size, faults, zoom_in) ==
    [name |-> name, size |-> size, zoom_in |-> zoom_in,
     resize_fails |-> faults.resize_fails,
     clip_fails |-> faults.clip_fails,
     zoom_fails |-> faults.zoom_fails]

\* The images folders of the pipeline runs: a directory listing of at most
\* MaxImages files on a case-sensitive file system.  The zoom effect is
\* applied, and so can raise, only when zoom_enabled is set.
ImageFolders(cfg) ==
    {[listing |-> [i \in 1..Len(s) |-> NamedFile(ImageNames[i], ImageSizes[i], s[i], TRUE)],
      case_insensitive |-> FALSE] :
        s \in SeqUpTo({f \in ImageFiles : f.zoom_fails => cfg.zoom_enabled}, MaxImages)}

\* the image file number n with each of its faults of resizing and loading
\* and each zoom direction; a direction is drawn only for a clip that gets
\* the zoom
FilesNamed(cfg, n) ==
    UNION {{NamedFile(ImageNames[n], ImageSizes[n], f, z) :
               z \in IF cfg.zoom_enabled /\ ~f.clip_fails THEN BOOLEAN ELSE {TRUE}} :
           f \in {g \in ImageFiles : ~g.zoom_fails}}

RECURSIVE ListingsOf(_, _)
\* the directory listings that hold the files numbered order[1], order[2], ...
ListingsOf(cfg, order) ==
    IF order = <<>>
    THEN {<<>>}
    ELSE {<<f>> \o rest : f \in FilesNamed(cfg, Head(order)),
                          rest \in ListingsOf(cfg, Tail(order))}

\* The images folders of the runs that load images only: at most MaxImages
\* different files, listed by the file system in any order, on a
\* case-sensitive or case-insensitive file system.
NamedFolders(cfg) ==
    LET orders == {o \in SeqUpTo(1..Len(ImageNames), MaxImages) :
                      \A i, j \in 1..Len(o) : i # j => o[i] # o[j]}
    IN {[listing |-> l, case_insensitive |-> c] :
           l \in UNION {ListingsOf(cfg, o) : o \in orders}, c \in BOOLEAN}

NoFolder == [listing |-> <<>>, case_insensitive |-> FALSE]

\* The audio file: fault names the call of _add_audio that raises on it
\* ("decode": AudioFileClip, "reconcile": subclipped / concatenate_audioclips).
\* A file that cannot be decoded has no duration.
AudioFiles ==
    {[fault |-> "decode", duration |-> 0]}
    \cup [fault : {"none", "reconcile"}, duration : 1..MaxAudioDuration]

\* the (start, end) times, in seconds, the cues of the .srt file are drawn from
CueSpans == {<<0, 2>>, <<9, 11>>}

\* One subtitle of the .srt file; renders is FALSE when TextClip raises on it.
SubtitleCues ==
    {[start |-> s[1], end |-> s[2], renders |-> r] : s \in CueSpans, r \in BOOLEAN}

\* The subtitles_file argument: absent (None or a path that does not exist),
\* or a file that pysrt cannot open (opens = FALSE), or a file with cues.
SubtitleFilesUpTo(n) ==
    {[present |-> FALSE, opens |-> FALSE, cues |-> <<>>],
     [present |-> TRUE, opens |-> FALSE, cues |-> <<>>]}
    \cup {[present |-> TRUE, opens |-> TRUE, cues |-> c] :
             c \in SeqUpTo(SubtitleCues, n)}

\* the subtitles files of the runs of the whole pipeline
SubtitleFiles == SubtitleFilesUpTo(MaxCues)

\* the subtitles files of the runs that start at the subtitle step
LongSubtitleFiles == SubtitleFilesUpTo(MaxSubtitleCues)

\* what happens inside _save_video
SaveOutcomes == {"saved", "makedirs_fails", "write_fails"}

-----------------------------------------------------------------------------
(* Clips *)

\* a video clip without an audio track
NoAudio == [copies |-> 0, duration |-> 0]

\* the value of a variable that has not been assigned yet
NoClip == [duration |-> 0, audio |-> NoAudio, overlays |-> <<>>]

NoAudioFile == [fault |-> "unread", duration |-> 0]

\* no image composed yet
NoBackground ==
    [source |-> <<0, 0>>, canvas |-> <<0, 0>>, new_size |-> <<0, 0>>,
     paste |-> <<0, 0>>, raised |-> FALSE]

NoSubtitleFile == [present |-> FALSE, opens |-> FALSE, cues |-> <<>>]

VARIABLES
    config,         \* self.config
    pc,             \* position of create_video
    images_folder,  \* the images folder of the run
    image_files,    \* the files _process_images found
    image_clips,    \* the list _process_images returned
    audio_file,     \* the audio file _add_audio was given
    subtitles_file, \* the subtitles file of the run
    video_clip,     \* the local video_clip of create_video
    calls,          \* the stages entered so far, in order
    encoded,        \* the clip write_videofile was called with, if any
    save_outcome,   \* how _save_video ended, "none" before it is called
    result,         \* the return value of create_video
    scratch,        \* the files of the directory temp/ and who wrote them
    output_file,    \* what is at the output path: "absent", "partial", "complete"
    runs,           \* the runs that resize images side by side
    background      \* the image _resize_image composed last

vars == <<config, pc, images_folder, image_files, image_clips, audio_file,
          subtitles_file, video_clip, calls, encoded, save_outcome, result,
          scratch, output_file, runs, background>>

-----------------------------------------------------------------------------
(* _process_images and the functions it calls *)

\* image_extensions of _process_images: ".jpg", ".jpeg", ".png", ".bmp", ".tiff"
ImageExtensions ==
    <<<<46, 106, 112, 103>>,
      <<46, 106, 112, 101, 103>>,
      <<46, 112, 110, 103>>,
      <<46, 98, 109, 112>>,
      <<46, 116, 105, 102, 102>>>>

\* str.upper and str.lower on one character code
UpperChar(c) == IF c \in 97..122 THEN c - 32 ELSE c

LowerChar(c) == IF c \in 65..90 THEN c + 32 ELSE c

Upper(str) == [i \in 1..Len(str) |-> UpperChar(str[i])]

Lower(str) == [i \in 1..Len(str) |-> LowerChar(str[i])]

\* str.endswith
EndsWith(str, suffix) ==
    /\ Len(suffix) <= Len(str)
    /\ SubSeq(str, Len(str) - Len(suffix) + 1, Len(str)) = suffix

\* folder_path.glob("*" + ext): the files of the listing whose name ends with
\* ext, in the order of the listing; letter case is ignored on a
\* case-insensitive file system
Glob(folder, ext) ==
    LET Matches(f) ==
            IF folder.case_insensitive
            THEN EndsWith(Lower(f.name), Lower(ext))
            ELSE EndsWith(f.name, ext)
    IN SelectSeq(folder.listing, Matches)

RECURSIVE GlobAllFrom(_, _)
\* the loop over image_extensions[i..]: the matches of ext and of ext.upper()
GlobAllFrom(folder, i) ==
    IF i > Len(ImageExtensions)
    THEN <<>>
    ELSE Glob(folder, ImageExtensions[i])
         \o Glob(folder, Upper(ImageExtensions[i]))
         \o GlobAllFrom(folder, i + 1)

RECURSIVE StrLess(_, _)
\* a < b for two strings: the order of the character codes
StrLess(a, b) ==
    IF b = <<>> THEN FALSE
    ELSE IF a = <<>> THEN TRUE
    ELSE IF Head(a) # Head(b) THEN Head(a) < Head(b)
    ELSE StrLess(Tail(a), Tail(b))

RECURSIVE Insert(_, _)
\* f put into the sorted list, behind the entries that are not greater
Insert(f, sorted) ==
    IF sorted = <<>> THEN <<f>>
    ELSE IF StrLess(f.name, Head(sorted).name) THEN <<f>> \o sorted
    ELSE <<Head(sorted)>> \o Insert(f, Tail(sorted))

RECURSIVE SortFiles(_, _)
\* image_files.sort(): a stable sort by path, of files[1..n]
SortFiles(files, n) ==
    IF n = 0 THEN <<>> ELSE Insert(files[n], SortFiles(files, n - 1))

\* the list image_files left in the order the globs found the files
FindImageFiles_Unsorted(folder) == GlobAllFrom(folder, 1)

\* the list image_files of _process_images, after the sort
FindImageFiles(folder) ==
    LET found == GlobAllFrom(folder, 1) IN SortFiles(found, Len(found))

\* a path: the directory and the file name
OriginalPath(f) == [dir |-> "images", name |-> f.name]

TempPath(f) == [dir |-> "temp", name |-> f.name]

NoPath == [dir |-> "none", name |-> <<>>]

\* the result of _create_image_clip when it returns None
None ==
    [duration |-> 0, source |-> NoPath, size |-> <<0, 0>>, zoomed |-> FALSE,
     start_scale |-> 0, end_scale |-> 0]

RECURSIVE GCD(_, _)
GCD(a, b) == IF b = 0 THEN a ELSE GCD(b, a % b)

RECURSIVE IsPowerOfTwo(_)
IsPowerOfTwo(n) == n = 1 \/ (n % 2 = 0 /\ IsPowerOfTwo(n \div 2))

\* scale_ratio as the fraction <<numerator, denominator>>: the larger of
\* target_width / original_width and target_height / original_height
ScaleRatio_Max(size, target) ==
    IF target[1] * size[2] >= target[2] * size[1]
    THEN <<target[1], size[1]>>
    ELSE <<target[2], size[2]>>

\* scale_ratio = min(width_ratio, height_ratio), as the fraction
\* <<numerator, denominator>>
ScaleRatio(size, target) ==
    IF target[1] * size[2] <= target[2] * size[1]
    THEN <<target[1], size[1]>>
    ELSE <<target[2], size[2]>>

\* int(x * ratio) in floating point, the ratio being the rounded quotient of
\* two integers.  A product that is no integer is far enough from the next
\* integer to be truncated as the exact one is.  A product that is an integer
\* q is q when the quotient is a binary fraction, and otherwise can be rounded
\* to just below q and truncated to q - 1: int(49 * (1024 / 49)) = 1023.
IntOfProduct(x, ratio) ==
    LET exact == (x * ratio[1]) \div ratio[2]
        reduced == ratio[2] \div GCD(ratio[1], ratio[2])
    IN IF (x * ratio[1]) % ratio[2] = 0 /\ ~IsPowerOfTwo(reduced)
       THEN {exact - 1, exact}
       ELSE {exact}

\* the body of _resize_image on an opened image of the given size: the
\* backgrounds it can compose, with the size of the resized image and the
\* place it is pasted at; img.resize raises on a size with a side of 0
ComposeBackground(size, target) ==
    LET scale_ratio == ScaleRatio(size, target) IN
    {[source |-> size,
      canvas |-> target,
      new_size |-> <<new_width, new_height>>,
      paste |-> <<(target[1] - new_width) \div 2, (target[2] - new_height) \div 2>>,
      raised |-> new_width < 1 \/ new_height < 1] :
        new_width \in IntOfProduct(size[1], scale_ratio),
        new_height \in IntOfProduct(size[2], scale_ratio)}

\* _resize_image: the path of the frame the clip is made from and the size
\* of that frame.  The frame saved to temp/ is the background, which has the
\* configured resolution; when resizing raised, the path of the original image
\* is returned.
ResizeImage(cfg, f) ==
    IF f.resize_fails
    THEN [path |-> OriginalPath(f), size |-> f.size]
    ELSE [path |-> TempPath(f), size |-> cfg.resolution]

\* zoom_factor of _add_zoom_effect, in hundredths: 1.2
ZoomFactor == 120

\* _add_zoom_effect: the scale at the start and at the end of the clip, in
\* hundredths; the clip is returned as it was when the effect raised, which
\* it also does on a clip of duration 0, where resize_func divides by zero.
\* Neither zoom_factor nor random_zoom_direction of the configuration is read.
AddZoomEffect(cfg, f, clip) ==
    IF f.zoom_fails \/ clip.duration = 0
    THEN clip
    ELSE IF f.zoom_in
    THEN [clip EXCEPT !.zoomed = TRUE, !.start_scale = ZoomFactor, !.end_scale = 100]
    ELSE [clip EXCEPT !.zoomed = TRUE, !.start_scale = 100, !.end_scale = ZoomFactor]

\* resize_func(t) of _add_zoom_effect, in hundredths, for a clip of a
\* duration that divides the change of the scale
ResizeFunc(clip, t) ==
    clip.start_scale + ((clip.end_scale - clip.start_scale) * t) \div clip.duration

\* _create_image_clip: None when ImageClip raises
CreateImageClip(cfg, f) ==
    IF f.clip_fails
    THEN None
    ELSE LET resized_image == ResizeImage(cfg, f)
             clip == [duration |-> cfg.image_duration,
                      source |-> resized_image.path,
                      size |-> resized_image.size,
                      zoomed |-> FALSE,
                      start_scale |-> 100,
                      end_scale |-> 100]
         IN IF cfg.zoom_enabled THEN AddZoomEffect(cfg, f, clip) ELSE clip

RECURSIVE ProcessImagesFrom(_, _, _)
\* the loop of _process_images over image_files[i..], in order
ProcessImagesFrom(cfg, files, i) ==
    IF i > Len(files)
    THEN <<>>
    ELSE LET clip == CreateImageClip(cfg, files[i])
             rest == ProcessImagesFrom(cfg, files, i + 1)
         IN IF clip # None THEN <<clip>> \o rest ELSE rest

\* _process_images: the clips of the usable images
ProcessImages(cfg, files) == ProcessImagesFrom(cfg, files, 1)

RECURSIVE SumDurations(_, _)
SumDurations(clips, i) ==
    IF i > Len(clips) THEN 0 ELSE clips[i].duration + SumDurations(clips, i + 1)

\* concatenate_videoclips(image_clips, method="compose")
ConcatenateVideoclips(clips) ==
    [duration |-> SumDurations(clips, 1), audio |-> NoAudio, overlays |-> <<>>]

\* the files the calls of _resize_image wrote to temp/, each marked with
\* the run that wrote it
ScratchWritten(files, run) ==
    {[name |-> files[i].name, run |-> run] :
        i \in {j \in 1..Len(files) : ~files[j].resize_fails}}

-----------------------------------------------------------------------------
(* _add_audio *)

\* clip.subclipped(0, end_time), as a duration
Subclipped(duration, end_time) == end_time

\* with_audio of one untouched copy of the audio
WithOneCopy(clip, audio_duration) ==
    [clip EXCEPT !.audio = [copies |-> 1, duration |-> audio_duration]]

\* _add_audio that attaches the longer audio without cutting it
AddAudio_NoTruncate(cfg, clip, af) ==
    IF af.fault = "decode" \/ (af.fault = "reconcile" /\ af.duration # clip.duration)
    THEN clip
    ELSE IF af.duration < clip.duration
    THEN IF af.duration * 2 >= clip.duration
         THEN [clip EXCEPT !.audio =
                  [copies |-> (clip.duration \div af.duration) + 1,
                   duration |-> clip.duration]]
         ELSE [WithOneCopy(clip, af.duration) EXCEPT !.duration = af.duration]
    ELSE WithOneCopy(clip, af.duration)

\* _add_audio that loops the audio when three copies, not two, cover the video
AddAudio_ThreeCopies(cfg, clip, af) ==
    IF af.fault = "decode" \/ (af.fault = "reconcile" /\ af.duration # clip.duration)
    THEN clip
    ELSE IF af.duration > clip.duration
    THEN WithOneCopy(clip, clip.duration)
    ELSE IF af.duration < clip.duration
    THEN IF af.duration * 3 >= clip.duration
         THEN [clip EXCEPT !.audio =
                  [copies |-> (clip.duration \div af.duration) + 1,
                   duration |-> clip.duration]]
         ELSE [WithOneCopy(clip, af.duration) EXCEPT !.duration = af.duration]
    ELSE WithOneCopy(clip, af.duration)

\* _add_audio that loops every shorter audio and never cuts the video
AddAudio_AlwaysLoop(cfg, clip, af) ==
    IF af.fault = "decode" \/ (af.fault = "reconcile" /\ af.duration # clip.duration)
    THEN clip
    ELSE IF af.duration > clip.duration
    THEN WithOneCopy(clip, clip.duration)
    ELSE IF af.duration < clip.duration
    THEN [clip EXCEPT !.audio =
             [copies |-> (clip.duration \div af.duration) + 1,
              duration |-> clip.duration]]
    ELSE WithOneCopy(clip, af.duration)

\* _add_audio that attaches the concatenated copies without cutting them to
\* the video
AddAudio_LoopsUncut(cfg, clip, af) ==
    IF af.fault = "decode" \/ (af.fault = "reconcile" /\ af.duration # clip.duration)
    THEN clip
    ELSE IF af.duration > clip.duration
    THEN WithOneCopy(clip, clip.duration)
    ELSE IF af.duration < clip.duration
    THEN IF af.duration * 2 >= clip.duration
         THEN [clip EXCEPT !.audio =
                  [copies |-> (clip.duration \div af.duration) + 1,
                   duration |-> ((clip.duration \div af.duration) + 1) * af.duration]]
         ELSE [WithOneCopy(clip, af.duration) EXCEPT !.duration = af.duration]
    ELSE WithOneCopy(clip, af.duration)

\* _add_audio(video_clip, audio_file): the clip it returns.  Neither
\* audio_sync_mode nor max_audio_loops is read.
AddAudio(cfg, clip, af) ==
    IF af.fault = "decode"
    THEN clip
    ELSE LET video_duration == clip.duration
             audio_duration == af.duration
         IN IF audio_duration > video_duration
            THEN IF af.fault = "reconcile"
                 THEN clip
                 ELSE [clip EXCEPT !.audio =
                          [copies |-> 1,
                           duration |-> Subclipped(audio_duration, video_duration)]]
            ELSE IF audio_duration < video_duration
            THEN IF af.fault = "reconcile"
                 THEN clip
                 ELSE IF audio_duration * 2 >= video_duration
                      THEN LET loops_needed == (video_duration \div audio_duration) + 1
                           IN [clip EXCEPT !.audio =
                                  [copies |-> loops_needed,
                                   duration |-> Subclipped(loops_needed * audio_duration,
                                                           video_duration)]]
                      ELSE [clip EXCEPT
                               !.duration = Subclipped(video_duration, audio_duration),
                               !.audio = [copies |-> 1, duration |-> audio_duration]]
            ELSE WithOneCopy(clip, audio_duration)

-----------------------------------------------------------------------------
(* _add_subtitles *)

RECURSIVE SubtitleClipsFrom(_, _)
\* the loop of _add_subtitles: one text clip for each cue that renders
SubtitleClipsFrom(cues, i) ==
    IF i > Len(cues)
    THEN <<>>
    ELSE LET rest == SubtitleClipsFrom(cues, i + 1)
         IN IF cues[i].renders
            THEN <<[start |-> cues[i].start, end |-> cues[i].end]>> \o rest
            ELSE rest

Max(a, b) == IF a >= b THEN a ELSE b

RECURSIVE MaxEnd(_, _)
MaxEnd(clips, i) ==
    IF i > Len(clips) THEN 0 ELSE Max(clips[i].end, MaxEnd(clips, i + 1))

\* CompositeVideoClip([video_clip] + subtitle_clips): it lasts until the
\* last of its clips ends
CompositeVideoClip(clip, subtitle_clips) ==
    [clip EXCEPT !.duration = Max(clip.duration, MaxEnd(subtitle_clips, 1)),
                 !.overlays = subtitle_clips]

RECURSIVE SubtitleClipsUntilFailure(_, _)
\* the loop of _add_subtitles with break in place of continue
SubtitleClipsUntilFailure(cues, i) ==
    IF i > Len(cues) \/ ~cues[i].renders
    THEN <<>>
    ELSE <<[start |-> cues[i].start, end |-> cues[i].end]>>
         \o SubtitleClipsUntilFailure(cues, i + 1)

\* _add_subtitles that stops at the first cue that fails to render
AddSubtitles_StopsAtFailure(clip, sf) ==
    IF ~sf.opens
    THEN clip
    ELSE LET subtitle_clips == SubtitleClipsUntilFailure(sf.cues, 1)
         IN IF subtitle_clips # <<>>
            THEN CompositeVideoClip(clip, subtitle_clips)
            ELSE clip

\* _add_subtitles(video_clip, subtitles_file): the clip it returns
AddSubtitles(clip, sf) ==
    IF ~sf.opens
    THEN clip
    ELSE LET subtitle_clips == SubtitleClipsFrom(sf.cues, 1)
         IN IF subtitle_clips # <<>>
            THEN CompositeVideoClip(clip, subtitle_clips)
            ELSE clip

-----------------------------------------------------------------------------
(* create_video *)

\* a VideoComposer constructed with one of the configurations cfgs, before
\* create_video is called; the constructor checks nothing
InitWith(cfgs) ==
    /\ config \in cfgs
    /\ pc = "idle"
    /\ images_folder = NoFolder
    /\ image_files = <<>>
    /\ image_clips = <<>>
    /\ audio_file = NoAudioFile
    /\ subtitles_file = NoSubtitleFile
    /\ video_clip = NoClip
    /\ calls = <<>>
    /\ encoded = NoClip
    /\ save_outcome = "none"
    /\ result = "running"
    /\ scratch = {}
    /\ output_file = "absent"
    /\ runs = <<>>
    /\ background = NoBackground

Init == InitWith(Configs)

\* step 1 without the return of False on an empty list
LoadImages_NoEmptyCheck ==
    /\ pc = "idle"
    /\ \E folder \in ImageFolders(config) :
        LET files == FindImageFiles(folder)
        IN /\ images_folder' = folder
           /\ image_files' = files
           /\ image_clips' = ProcessImages(config, files)
           /\ scratch' = scratch \cup ScratchWritten(files, 1)
    /\ pc' = "images_loaded"
    /\ calls' = Append(calls, "_process_images")
    /\ UNCHANGED <<background, config, audio_file, subtitles_file, video_clip,
                   encoded, save_outcome, result, output_file, runs>>

\* step 1 on an images folder drawn from folders: _process_images, and the
\* return of False when it found nothing
LoadImagesOf(folders) ==
    /\ pc = "idle"
    /\ \E folder \in folders :
        LET files == FindImageFiles(folder)
            clips == ProcessImages(config, files)
        IN /\ images_folder' = folder
           /\ image_files' = files
           /\ image_clips' = clips
           /\ scratch' = scratch \cup ScratchWritten(files, 1)
           /\ IF clips = <<>>
              THEN pc' = "failed" /\ result' = "False"
              ELSE pc' = "images_loaded" /\ result' = result
    /\ calls' = Append(calls, "_process_images")
    /\ UNCHANGED <<background, config, audio_file, subtitles_file, video_clip,
                   encoded, save_outcome, output_file, runs>>

\* step 1 of a run of the whole pipeline
LoadImages == LoadImagesOf(ImageFolders(config))

\* step 2: concatenate_videoclips
BuildTimeline ==
    /\ pc = "images_loaded"
    /\ video_clip' = ConcatenateVideoclips(image_clips)
    /\ pc' = "timeline_built"
    /\ calls' = Append(calls, "concatenate_videoclips")
    /\ UNCHANGED <<background, config, images_folder, scratch, output_file,
                   runs, image_files, image_clips, audio_file, subtitles_file,
                   encoded, save_outcome, result>>

\* step 3 with an _add_audio that lets the exception through to create_video
ReconcileAudio_Propagates ==
    /\ pc = "timeline_built"
    /\ \E af \in AudioFiles :
        /\ audio_file' = af
        /\ IF af.fault = "decode"
              \/ (af.fault = "reconcile" /\ af.duration # video_clip.duration)
           THEN video_clip' = video_clip /\ pc' = "failed" /\ result' = "False"
           ELSE /\ video_clip' = AddAudio(config, video_clip, af)
                /\ pc' = "audio_reconciled"
                /\ result' = result
    /\ calls' = Append(calls, "_add_audio")
    /\ UNCHANGED <<background, config, images_folder, scratch, output_file,
                   runs, image_files, image_clips, subtitles_file, encoded,
                   save_outcome>>

\* step 3: _add_audio, which catches whatever is raised inside it
ReconcileAudio ==
    /\ pc = "timeline_built"
    /\ \E af \in AudioFiles :
        /\ audio_file' = af
        /\ video_clip' = AddAudio(config, video_clip, af)
    /\ pc' = "audio_reconciled"
    /\ calls' = Append(calls, "_add_audio")
    /\ UNCHANGED <<background, config, images_folder, scratch, output_file,
                   runs, image_files, image_clips, subtitles_file, encoded,
                   save_outcome, result>>

\* step 4 with an _add_subtitles that lets the exception through to
\* create_video
ApplySubtitles_Propagates ==
    /\ pc = "audio_reconciled"
    /\ \E sf \in SubtitleFiles :
        /\ subtitles_file' = sf
        /\ IF sf.present
           THEN /\ calls' = Append(calls, "_add_subtitles")
                /\ IF sf.opens /\ \A i \in 1..Len(sf.cues) : sf.cues[i].renders
                   THEN /\ video_clip' = AddSubtitles(video_clip, sf)
                        /\ pc' = "subtitles_applied"
                        /\ result' = result
                   ELSE video_clip' = video_clip /\ pc' = "failed" /\ result' = "False"
           ELSE pc' = "subtitles_applied" /\ UNCHANGED <<video_clip, calls, result>>
    /\ UNCHANGED <<background, config, images_folder, scratch, output_file,
                   runs, image_files, image_clips, audio_file, encoded,
                   save_outcome>>

\* step 4 with a subtitles file drawn from files: _add_subtitles when a
\* subtitles file was given and exists
ApplySubtitlesOf(files) ==
    /\ pc = "audio_reconciled"
    /\ \E sf \in files :
        /\ subtitles_file' = sf
        /\ IF sf.present
           THEN /\ video_clip' = AddSubtitles(video_clip, sf)
                /\ calls' = Append(calls, "_add_subtitles")
           ELSE UNCHANGED <<video_clip, calls>>
    /\ pc' = "subtitles_applied"
    /\ UNCHANGED <<background, config, images_folder, scratch, output_file,
                   runs, image_files, image_clips, audio_file, encoded,
                   save_outcome, result>>

\* What write_videofile leaves at the output path: the complete file, or,
\* when it raised, nothing or the part written until then.  _save_video
\* removes nothing.
OutputWritten(outcome) ==
    IF outcome = "saved" THEN {"complete"}
    ELSE IF outcome = "write_fails" THEN {"absent", "partial"}
    ELSE {"absent"}

\* step 4 of a run of the whole pipeline
ApplySubtitles == ApplySubtitlesOf(SubtitleFiles)

\* step 5 with a _save_video that logs the exception and does not raise it
\* again
SaveVideo_Swallows ==
    /\ pc = "subtitles_applied"
    /\ \E outcome \in SaveOutcomes :
        /\ save_outcome' = outcome
        /\ calls' = IF outcome = "makedirs_fails"
                    THEN Append(calls, "_save_video")
                    ELSE calls \o <<"_save_video", "write_videofile">>
        /\ encoded' = IF outcome = "makedirs_fails" THEN encoded ELSE video_clip
        /\ \E written \in OutputWritten(outcome) : output_file' = written
    /\ pc' = "encoded"
    /\ result' = "True"
    /\ UNCHANGED <<background, config, images_folder, scratch, runs,
                   image_files, image_clips, audio_file, subtitles_file,
                   video_clip>>

\* step 5: _save_video, which raises again what makedirs or write_videofile
\* raised; create_video then returns False
SaveVideo ==
    /\ pc = "subtitles_applied"
    /\ \E outcome \in SaveOutcomes :
        /\ save_outcome' = outcome
        /\ calls' = IF outcome = "makedirs_fails"
                    THEN Append(calls, "_save_video")
                    ELSE calls \o <<"_save_video", "write_videofile">>
        /\ encoded' = IF outcome = "makedirs_fails" THEN encoded ELSE video_clip
        /\ \E written \in OutputWritten(outcome) : output_file' = written
        /\ IF outcome = "saved"
           THEN pc' = "encoded" /\ result' = "True"
           ELSE pc' = "failed" /\ result' = "False"
    /\ UNCHANGED <<background, config, images_folder, scratch, runs,
                   image_files, image_clips, audio_file, subtitles_file,
                   video_clip>>

Next ==
    \/ LoadImages
    \/ BuildTimeline
    \/ ReconcileAudio
    \/ ApplySubtitles
    \/ SaveVideo

Spec == Init /\ [][Next]_vars

-----------------------------------------------------------------------------
(* Runs that start at the subtitle step *)

\* VIDEO_CONFIG
VideoConfig ==
    [image_duration |-> 4,
     zoom_enabled |-> TRUE,
     audio_sync_mode |-> "loop_audio",
     max_audio_loops |-> 3,
     fps |-> VideoFps,
     resolution |-> VideoResolution,
     zoom_factor |-> ConfigZoomFactor,
     random_zoom_direction |-> TRUE,
     subtitle_fontsize |-> SubtitleFontsize]

\* The configurations of the runs that load images only: VIDEO_CONFIG, and
\* VIDEO_CONFIG with one setting of the frames or of the zoom changed, to
\* values that validate_config rejects among others.
ImageConfigs ==
    {VideoConfig,
     [VideoConfig EXCEPT !.image_duration = 0],
     [VideoConfig EXCEPT !.fps = 0],
     [VideoConfig EXCEPT !.fps = 121],
     [VideoConfig EXCEPT !.zoom_enabled = FALSE],
     [VideoConfig EXCEPT !.zoom_factor = 130],
     [VideoConfig EXCEPT !.random_zoom_direction = FALSE]}

\* A run under VIDEO_CONFIG that has loaded a folder of sound images, built
\* the timeline and reconciled some audio file, and is about to apply the
\* subtitles.
InitSubtitles ==
    /\ config = VideoConfig
    /\ pc = "audio_reconciled"
    /\ \E folder \in ImageFolders(VideoConfig) :
        /\ folder.listing # <<>>
        /\ \A i \in 1..Len(folder.listing) :
              ~folder.listing[i].resize_fails /\ ~folder.listing[i].clip_fails
              /\ ~folder.listing[i].zoom_fails
        /\ images_folder = folder
        /\ image_files = FindImageFiles(folder)
        /\ image_clips = ProcessImages(VideoConfig, image_files)
        /\ scratch = ScratchWritten(image_files, 1)
    /\ audio_file \in AudioFiles
    /\ video_clip = AddAudio(VideoConfig, ConcatenateVideoclips(image_clips), audio_file)
    /\ subtitles_file = NoSubtitleFile
    /\ calls = <<"_process_images", "concatenate_videoclips", "_add_audio">>
    /\ encoded = NoClip
    /\ save_outcome = "none"
    /\ result = "running"
    /\ output_file = "absent"
    /\ runs = <<>>
    /\ background = NoBackground

\* step 4 on a subtitles file of up to MaxSubtitleCues cues
ApplyLongSubtitles == ApplySubtitlesOf(LongSubtitleFiles)

NextSubtitles ==
    \/ ApplyLongSubtitles
    \/ SaveVideo

SpecSubtitles == InitSubtitles /\ [][NextSubtitles]_vars

-----------------------------------------------------------------------------
(* Runs that load the images only *)

\* validate_config of config.py: is_valid.  Nothing calls it.
ValidateConfig(cfg) ==
    /\ Len(cfg.resolution) = 2
    /\ ~(cfg.fps <= 0 \/ cfg.fps > 120)
    /\ ~(cfg.image_duration <= 0)
    /\ ~(cfg.subtitle_fontsize <= 0)

InitImages == InitWith(ImageConfigs)

\* step 1 on a folder of named files in any listing order
LoadNamedImages == LoadImagesOf(NamedFolders(config))

NextImages == LoadNamedImages

SpecImages == InitImages /\ [][NextImages]_vars

-----------------------------------------------------------------------------
(* Two runs that load their images side by side in one working directory *)

\* the two calls of create_video
Runs == {1, 2}

\* The images folders of the two runs: each run has a folder of its own, and
\* the files of the two folders have the same names.
ConcurrentFolders ==
    {folder \in ImageFolders(VideoConfig) :
        /\ folder.listing # <<>>
        /\ \A i \in 1..Len(folder.listing) :
              ~folder.listing[i].clip_fails /\ ~folder.listing[i].zoom_fails}

\* a run at the top of the loop of _process_images over its sorted files
RunOver(folder) ==
    [files |-> FindImageFiles(folder), next |-> 1, resized_image |-> NoPath,
     written |-> {}, frames |-> <<>>]

InitConcurrent ==
    /\ config = VideoConfig
    /\ pc = "idle"
    /\ images_folder = NoFolder
    /\ image_files = <<>>
    /\ image_clips = <<>>
    /\ audio_file = NoAudioFile
    /\ subtitles_file = NoSubtitleFile
    /\ video_clip = NoClip
    /\ calls = <<>>
    /\ encoded = NoClip
    /\ save_outcome = "none"
    /\ result = "running"
    /\ scratch = {}
    /\ output_file = "absent"
    /\ runs \in [Runs -> {RunOver(folder) : folder \in ConcurrentFolders}]
    /\ background = NoBackground

\* _resize_image in run r on its next file: background.save(temp_path) puts
\* the frame of run r at temp/resized_<name>, over whatever was there; the
\* path of the original image is returned when resizing raised
SaveResized(r) ==
    LET run == runs[r] IN
    /\ run.next <= Len(run.files)
    /\ run.resized_image = NoPath
    /\ LET f == run.files[run.next] IN
        IF f.resize_fails
        THEN /\ runs' = [runs EXCEPT ![r].resized_image = OriginalPath(f)]
             /\ scratch' = scratch
        ELSE /\ runs' = [runs EXCEPT ![r].resized_image = TempPath(f),
                                     ![r].written = @ \cup {f.name}]
             /\ scratch' = {t \in scratch : t.name # f.name}
                              \cup {[name |-> f.name, run |-> r]}
    /\ UNCHANGED <<background, config, pc, images_folder, image_files,
                   image_clips, audio_file, subtitles_file, video_clip, calls,
                   encoded, save_outcome, result, output_file>>

\* ImageClip(resized_image) in run r: the frame is read from the path that
\* _resize_image returned, as whichever run saved it last
ReadResized(r) ==
    LET run == runs[r]
        path == run.resized_image
        frame == IF path.dir = "temp"
                 THEN CHOOSE t \in scratch : t.name = path.name
                 ELSE [name |-> path.name, run |-> r]
    IN
    /\ path # NoPath
    /\ runs' = [runs EXCEPT ![r].frames = Append(@, frame),
                            ![r].resized_image = NoPath,
                            ![r].next = @ + 1]
    /\ UNCHANGED <<background, config, pc, images_folder, image_files,
                   image_clips, audio_file, subtitles_file, video_clip, calls,
                   encoded, save_outcome, result, scratch, output_file>>

NextConcurrent ==
    \E r \in Runs : SaveResized(r) \/ ReadResized(r)

SpecConcurrent == InitConcurrent /\ [][NextConcurrent]_vars

-----------------------------------------------------------------------------
(* The arithmetic of _resize_image *)

\* the sizes of the source images: every small size, the sizes of the image
\* files, and a size that the video resolution is no binary multiple of
SourceSizes ==
    ((1..MaxSide) \X (1..MaxSide))
        \cup {ImageSizes[i] : i \in 1..Len(ImageSizes)} \cup {<<49, 30>>}

\* the canvases: every small size and the video resolution
CanvasSizes == ((1..MaxSide) \X (1..MaxSide)) \cup {VideoResolution}

ResizeConfigs == {[VideoConfig EXCEPT !.resolution = c] : c \in CanvasSizes}

InitResize == InitWith(ResizeConfigs)

\* _resize_image on an image of one of the source sizes, up to
\* background.paste
ComposeOne ==
    /\ background = NoBackground
    /\ \E size \in SourceSizes :
          background' \in ComposeBackground(size, config.resolution)
    /\ UNCHANGED <<config, pc, images_folder, image_files, image_clips,
                   audio_file, subtitles_file, video_clip, calls, encoded,
                   save_outcome, result, scratch, output_file, runs>>

NextResize == ComposeOne

SpecResize == InitResize /\ [][NextResize]_vars

-----------------------------------------------------------------------------
(* Definitions the properties share *)

\* the number of entries of calls that are the call c
CountCalls(c) == Cardinality({i \in 1..Len(calls) : calls[i] = c})

EncoderInvoked == CountCalls("write_videofile") > 0

\* the stages of a complete run, in the order of create_video, with and
\* without a subtitles file
FullRunWithSubtitles ==
    <<"_process_images", "concatenate_videoclips", "_add_audio", "_add_subtitles",
      "_save_video", "write_videofile">>

FullRunWithoutSubtitles ==
    <<"_process_images", "concatenate_videoclips", "_add_audio",
      "_save_video", "write_videofile">>

\* the duration of the image timeline before audio reconciliation
TimelineDuration == SumDurations(image_clips, 1)

\* the state right after _add_audio returned, having raised nothing inside
Reconciled == pc = "audio_reconciled" /\ audio_file.fault = "none"

AudioShorter == Reconciled /\ audio_file.duration < TimelineDuration

\* audio.duration * 2 >= video_duration
OneLoopHeuristic == audio_file.duration * 2 >= TimelineDuration

Min(a, b) == IF a <= b THEN a ELSE b

RunEnded == pc \in {"encoded", "failed"}

\* the duration of the timeline that audio reconciliation handed on
ReconciledDuration ==
    AddAudio(config, ConcatenateVideoclips(image_clips), audio_file).duration

-----------------------------------------------------------------------------
(* C1 .. C10 *)

\* C1: the encoder is invoked at most once, and only after image loading,
\* timeline concatenation, audio reconciliation and the subtitle step, in
\* that order; a run that returns True invoked it exactly once and it
\* completed without error.
C1_EncoderOnceAfterAllStages ==
    /\ CountCalls("write_videofile") <= 1
    /\ EncoderInvoked => calls \in {FullRunWithSubtitles, FullRunWithoutSubtitles}
    /\ EncoderInvoked => (("_add_subtitles" \in {calls[i] : i \in 1..Len(calls)})
                            <=> subtitles_file.present)
    /\ result = "True" =>
          CountCalls("write_videofile") = 1 /\ save_outcome = "saved"

C1_Witness ==
    /\ result = "True"
    /\ calls = FullRunWithSubtitles
    /\ save_outcome = "saved"

\* C2: when image loading yields no usable image (no matching file, or every
\* file fails clip creation) the run returns False and neither audio
\* reconciliation, nor the subtitle step, nor the encoder is invoked.
C2_NoImagesFailsEarly ==
    (pc # "idle" /\ \A i \in 1..Len(image_files) : image_files[i].clip_fails) =>
        /\ result = "False"
        /\ pc = "failed"
        /\ calls = <<"_process_images">>
        /\ save_outcome = "none"
        /\ encoded = NoClip

C2_Witness ==
    /\ Len(image_files) = MaxImages
    /\ \A i \in 1..Len(image_files) : image_files[i].clip_fails
    /\ result = "False"

\* C3: a run returns False only if the image set was empty or the encoder
\* invocation failed; failures of resizing, zoom, audio reconciliation,
\* subtitle loading or a single cue never do, and such a run still reaches
\* the encoder.
C3_OnlyTwoFatalCases ==
    /\ result = "False" =>
          image_clips = <<>> \/ save_outcome \in {"makedirs_fails", "write_fails"}
    /\ (RunEnded /\ image_clips # <<>>) =>
          "_save_video" \in {calls[i] : i \in 1..Len(calls)}
    /\ (RunEnded /\ image_clips # <<>> /\ save_outcome = "saved") => result = "True"

C3_Witness ==
    /\ result = "True"
    /\ config.zoom_enabled
    /\ \E i \in 1..Len(image_files) :
          image_files[i].resize_fails /\ image_files[i].zoom_fails
    /\ audio_file.fault = "reconcile"
    /\ audio_file.duration # TimelineDuration
    /\ subtitles_file.present
    /\ \E i \in 1..Len(subtitles_file.cues) : ~subtitles_file.cues[i].renders
    /\ EncoderInvoked

\* C4, as claimed: an audio track that cannot be decoded is fatal: the run
\* does not return True and the encoder is not invoked with a video without
\* audio.
C4_UndecodableAudioFatal ==
    audio_file.fault = "decode" =>
        /\ result # "True"
        /\ ~(EncoderInvoked /\ encoded.audio = NoAudio)

\* C4, amended: an audio track that cannot be decoded is not fatal: the
\* video keeps its duration and gets no audio, the run goes on to the
\* subtitle step and the encoder, the encoder is invoked with a video
\* without audio, and the run returns False only if saving failed.
C4_UndecodableAudioContinues ==
    audio_file.fault = "decode" =>
        /\ video_clip.audio = NoAudio
        /\ pc = "audio_reconciled" => video_clip.duration = TimelineDuration
        /\ EncoderInvoked => encoded.audio = NoAudio
        /\ result = "False" => save_outcome \in {"makedirs_fails", "write_fails"}
        /\ save_outcome = "saved" => result = "True"

C4_Witness ==
    /\ audio_file.fault = "decode"
    /\ result = "True"
    /\ EncoderInvoked
    /\ encoded.audio = NoAudio

\* C5: whenever the audio is strictly longer than the video, under any sync
\* policy, reconciliation cuts the audio to exactly the video duration and
\* leaves the duration of the video timeline unchanged.
C5_LongerAudioTruncated ==
    (Reconciled /\ audio_file.duration > TimelineDuration) =>
        /\ video_clip.audio = [copies |-> 1, duration |-> TimelineDuration]
        /\ video_clip.duration = TimelineDuration

C5_Witness ==
    /\ Reconciled
    /\ audio_file.duration = 11
    /\ TimelineDuration = 10
    /\ config.audio_sync_mode = "cut_video"
    /\ video_clip.audio.duration = 10

\* C6: under loop_audio, when the audio is shorter than the video and
\* audio.duration * 2 >= video_duration, the number of copies concatenated is
\* min(floor(video_duration / audio.duration) + 1, max_loops), never more
\* than max_loops, and the concatenation is cut to video_duration.
C6_LoopsCappedAtMaxLoops ==
    (AudioShorter /\ OneLoopHeuristic /\ config.audio_sync_mode = "loop_audio") =>
        LET copies == Min((TimelineDuration \div audio_file.duration) + 1,
                          config.max_audio_loops)
        IN /\ video_clip.audio.copies = copies
           /\ video_clip.audio.copies <= config.max_audio_loops
           /\ video_clip.audio.duration =
                 Min(copies * audio_file.duration, TimelineDuration)

C8_CutVideoAlwaysCutsVideo ==
    (AudioShorter /\ config.audio_sync_mode = "cut_video") =>
        /\ video_clip.duration = audio_file.duration
        /\ video_clip.audio.copies = 1

\* C9: under cut_audio, when the audio is shorter than the video, the audio
\* is returned unchanged: one copy, of its original duration, not looped.
C9_CutAudioLeavesAudio ==
    (AudioShorter /\ config.audio_sync_mode = "cut_audio") =>
        video_clip.audio = [copies |-> 1, duration |-> audio_file.duration]

\* the case of C10: audio = 3s, video = 10s, loop_audio, max_loops = 3
C10_Case ==
    /\ Reconciled
    /\ audio_file.duration = 3
    /\ TimelineDuration = 10
    /\ config.audio_sync_mode = "loop_audio"
    /\ config.max_audio_loops = 3

-----------------------------------------------------------------------------
(* C11 .. C20 *)

\* C11: with D the duration of the reconciled timeline, a cue with
\* start_time >= D produces no overlay, and every overlay has start_time < D
\* and ends at min(cue end_time, D): no overlay extends past the end of the
\* reconciled timeline.
C11_OverlaysClippedToTimeline ==
    (pc = "subtitles_applied" /\ subtitles_file.opens) =>
        /\ \A i \in 1..Len(video_clip.overlays) :
              /\ video_clip.overlays[i].start < ReconciledDuration
              /\ video_clip.overlays[i].end <= ReconciledDuration
              /\ \E j \in 1..Len(subtitles_file.cues) :
                    /\ subtitles_file.cues[j].start = video_clip.overlays[i].start
                    /\ video_clip.overlays[i].end =
                          Min(subtitles_file.cues[j].end, ReconciledDuration)
        /\ \A j \in 1..Len(subtitles_file.cues) :
              subtitles_file.cues[j].start >= ReconciledDuration =>
                  \A i \in 1..Len(video_clip.overlays) :
                      video_clip.overlays[i].start # subtitles_file.cues[j].start

\* the cues of the subtitles file that render, as overlays, in file order
RenderedCues ==
    LET Renders(cue) == cue.renders
        kept == SelectSeq(subtitles_file.cues, Renders)
    IN [i \in 1..Len(kept) |-> [start |-> kept[i].start, end |-> kept[i].end]]

SubtitlesStepDone == pc \in {"subtitles_applied", "encoded", "failed"}

\* C12: a cue that fails to render removes only that cue: the other cues are
\* overlaid in their original order and the run goes on to the encoder; when
\* no cue survives the video is passed on without subtitles and the run is
\* not failed.
C12_FailedCueSkippedOnly ==
    (SubtitlesStepDone /\ subtitles_file.opens) =>
        /\ video_clip.overlays = RenderedCues
        /\ RenderedCues = <<>> => video_clip.duration = ReconciledDuration
        /\ pc = "failed" => save_outcome \in {"makedirs_fails", "write_fails"}
        /\ RunEnded => "_save_video" \in {calls[i] : i \in 1..Len(calls)}
        /\ save_outcome = "saved" => result = "True" /\ encoded = video_clip

C12_Witness ==
    /\ result = "True"
    /\ Len(subtitles_file.cues) = 3
    /\ subtitles_file.cues[1].renders
    /\ ~subtitles_file.cues[2].renders
    /\ subtitles_file.cues[3].renders
    /\ subtitles_file.cues[1].start # subtitles_file.cues[3].start
    /\ Len(encoded.overlays) = 2
    /\ encoded.overlays[1].start = subtitles_file.cues[1].start
    /\ encoded.overlays[2].start = subtitles_file.cues[3].start

\* the names of the files, in order
NamesOf(files) == [i \in 1..Len(files) |-> files[i].name]

\* no file of the list comes before an earlier file of the list
IsSorted(files) ==
    \A i, j \in 1..Len(files) : i < j => ~StrLess(files[j].name, files[i].name)

\* the files of the list that _create_image_clip makes a clip of
Usable(files) == SelectSeq(files, LAMBDA f : ~f.clip_fails)

\* step 1 has run
ImagesStepDone == pc # "idle"

\* the file names of a directory listing
ListedNames(folder) == NamesOf(folder.listing)

C14_EveryFrameHasCanvasSize ==
    \A i \in 1..Len(image_clips) : image_clips[i].size = config.resolution

\* C15: a configuration that validate_config rejects makes the run fail before
\* step 1: no image is read, no scratch file is written, the encoder is not
\* invoked
C15_InvalidConfigFailsFirst ==
    ~ValidateConfig(config) =>
        /\ image_files = <<>>
        /\ image_clips = <<>>
        /\ scratch = {}
        /\ ~EncoderInvoked

\* the clips of the timeline that have the zoom
ZoomedClips == {image_clips[i] : i \in {j \in 1..Len(image_clips) : image_clips[j].zoomed}}

\* C19: the scale of a zoomed segment of duration d > 0 under a configured
\* zoom_factor z > 1 goes linearly and monotonically from z to 1.0 (zoom in)
\* or from 1.0 to z (zoom out), z being the zoom_factor of the configuration
C19_ZoomEndpointsFromConfig ==
    \A c \in ZoomedClips :
        (c.duration > 0 /\ config.zoom_factor > 100) =>
            /\ <<c.start_scale, c.end_scale>>
                   \in {<<config.zoom_factor, 100>>, <<100, config.zoom_factor>>}
            /\ ResizeFunc(c, 0) = c.start_scale
            /\ ResizeFunc(c, c.duration) = c.end_scale
            /\ \A t \in 0..(c.duration - 1) :
                   /\ ResizeFunc(c, t + 1) - ResizeFunc(c, t)
                          = ResizeFunc(c, 1) - ResizeFunc(c, 0)
                   /\ (c.start_scale <= c.end_scale)
                          = (ResizeFunc(c, t) <= ResizeFunc(c, t + 1))

\* C20: with random_zoom_direction disabled every zoomed segment of a run has
\* the same zoom direction
C20_FixedDirectionWhenNotRandom ==
    ~config.random_zoom_direction =>
        \A c, d \in ZoomedClips : c.start_scale = d.start_scale

\* C16: a run that ended in failure, a failure of the encoder while writing
\* included, leaves no partial output file at the output path
C16_FailedRunLeavesNoOutput ==
    pc = "failed" => output_file = "absent"

\* C17: when the run has ended, in success or in failure, the scratch
\* directory holds no frame that the run wrote
C17_ScratchEmptyAtRunEnd ==
    RunEnded => scratch = {}

\* C18: no scratch path written by one run is written or read by the other
\* run: the two runs write different paths, and every frame a run makes a
\* clip of is the frame that run saved
C18_DistinctScratchNamespaces ==
    \A r, q \in DOMAIN runs :
        r # q =>
            /\ runs[r].written \cap runs[q].written = {}
            /\ \A i \in 1..Len(runs[r].frames) : runs[r].frames[i].run # q

-----------------------------------------------------------------------------
(* C21 .. C24 *)

\* C22: whenever _add_audio returns without having raised inside, the audio
\* attached to the clip lasts exactly as long as the clip it returns
C22_AudioAsLongAsVideo ==
    Reconciled => video_clip.audio.duration = video_clip.duration

\* C22 case: an audio of 3s under a timeline of 5s is looped twice and cut
\* to 5s
C22_Witness ==
    /\ Reconciled
    /\ audio_file.duration = 3
    /\ TimelineDuration = 5
    /\ video_clip.audio = [copies |-> 2, duration |-> 5]
    /\ video_clip.duration = 5

\* C23: the clip that _add_subtitles returns lasts as long as the clip it was
\* given, whatever the cues
C23_SubtitlesKeepDuration ==
    pc = "subtitles_applied" => video_clip.duration = ReconciledDuration

\* C24: every image file of the folder makes at most one segment of the
\* timeline, also on a file system that matches glob patterns without regard
\* to case: there are no more segments than files in the folder
C24_OneSegmentPerFile ==
    ImagesStepDone =>
        /\ Len(image_clips) <= Len(images_folder.listing)
        /\ \A i, j \in 1..Len(image_clips) :
              i # j => image_clips[i].source.name # image_clips[j].source.name

\* the distance of two numbers
Distance(a, b) == IF a >= b THEN a - b ELSE b - a

\* C21: the image is scaled by min(W/w, H/h), to within the truncation to
\* whole pixels, and pasted at (floor((W - new_w) / 2), floor((H - new_h) / 2));
\* the pasted rectangle is no wider and no higher than the canvas, both
\* offsets are >= 0, offset + size stays within the canvas, and the margins
\* left and right, and top and bottom, differ by at most one pixel
C21_PastedWithinCanvasCentered ==
    (background # NoBackground /\ ~background.raised) =>
        LET w == background.source[1]
            h == background.source[2]
            W == background.canvas[1]
            H == background.canvas[2]
            new_w == background.new_size[1]
            new_h == background.new_size[2]
            x == background.paste[1]
            y == background.paste[2]
            num == IF W * h <= H * w THEN W ELSE H
            den == IF W * h <= H * w THEN w ELSE h
        IN /\ new_w * den <= w * num /\ (new_w + 2) * den > w * num
           /\ new_h * den <= h * num /\ (new_h + 2) * den > h * num
           /\ 2 * x <= W - new_w /\ 2 * x + 2 > W - new_w
           /\ 2 * y <= H - new_h /\ 2 * y + 2 > H - new_h
           /\ new_w <= W /\ new_h <= H
           /\ x >= 0 /\ y >= 0
           /\ x + new_w <= W /\ y + new_h <= H
           /\ Distance(x, W - new_w - x) <= 1
           /\ Distance(y, H - new_h - y) <= 1

\* C21 case: an image of 49 x 30 on the canvas of 1024 x 768 is scaled by
\* 1024 / 49 to 1023 x 626 and pasted at (0, 71)
C21_Witness ==
    /\ background.source = <<49, 30>>
    /\ background.canvas = VideoResolution
    /\ background.new_size = <<1023, 626>>
    /\ background.paste = <<0, 71>>
    /\ ~background.raised

====
